---- MODULE Spec2Model ----
(***************************************************************************)
(* Model of hinge-solver.py: the residual function equations() and the     *)
(* driver solve_pivot_points(), which seeds scipy.optimize.fsolve (MINPACK  *)
(* hybrd, Powell's hybrid method) and returns its final iterate.            *)
(*                                                                         *)
(* Reals are fixed-point integers with Scale units per 1.0; every product, *)
(* quotient and root is rounded the way the operators below say.  Angles   *)
(* are whole degrees, as in the script.                                    *)
(***************************************************************************)
EXTENDS Integers, Sequences, FiniteSets, TLC

(***************************************************************************)
(* State of the script: the module-level names and the latest call.        *)
(***************************************************************************)
VARIABLES
    params,     \* the module-level h, w, d, alpha, g
    pc,         \* "ready", "returned" or "evaluated"
    frame,      \* the locals of the latest call of solve_pivot_points
    pivot_box,  \* the module-level results of the latest call
    pivot_lid,
    evald,      \* the latest direct evaluation of equations(): vars and result
    history,    \* arguments and results of the calls made so far
    ncalls      \* number of calls of solve_pivot_points made so far

vars == <<params, pc, frame, pivot_box, pivot_lid, evald, history, ncalls>>

\* the value of a name that is not bound yet
None == <<>>

(***************************************************************************)
(* Evaluation order.  Python evaluates an expression once and binds the    *)
(* value to a name; Let and Let2 do the same, so that a name used several  *)
(* times stands for one evaluation.                                        *)
(***************************************************************************)
\* F applied to the value of e
Let(e, F(_)) == CHOOSE r \in {F(v) : v \in {e}} : TRUE

\* F applied to the values of a and b
Let2(a, b, F(_, _)) == CHOOSE r \in {F(u, v) : u \in {a}, v \in {b}} : TRUE

(***************************************************************************)
(* Fixed-point arithmetic standing for the float arithmetic of the script. *)
(***************************************************************************)
Scale == 10 ^ 3

Abs(a) == IF a < 0 THEN -a ELSE a

Sgn(a) == IF a < 0 THEN -1 ELSE 1

Min(a, b) == IF a < b THEN a ELSE b

Max(a, b) == IF a < b THEN b ELSE a

\* n / m rounded to the nearest integer, halves away from zero (sign-symmetric
\* like IEEE rounding).
RoundDiv(n, m) ==
    Let2(n, m, LAMBDA p, q :
        Sgn(p) * Sgn(q) * ((2 * Abs(p) + Abs(q)) \div (2 * Abs(q))))

\* x * y for magnitudes x, y, split so that only a product that is itself out
\* of range overflows
MulSplit(x, y) ==
      (x \div Scale) * (y \div Scale) * Scale
    + (x \div Scale) * (y % Scale)
    + (x % Scale) * (y \div Scale)
    + RoundDiv((x % Scale) * (y % Scale), Scale)

\* a * b for fixed-point a, b
Mul(a, b) ==
    Let2(a, b, LAMBDA u, v :
        IF Abs(u) < 32768 /\ Abs(v) < 32768
        THEN RoundDiv(u * v, Scale)
        ELSE Sgn(u) * Sgn(v) * MulSplit(Abs(u), Abs(v)))

\* x / y for magnitudes x, y (y # 0), split like MulSplit
DivSplit(x, y) == (x \div y) * Scale + RoundDiv((x % y) * Scale, y)

\* a / b for fixed-point a, b (b # 0)
Div(a, b) ==
    Let2(a, b, LAMBDA u, v :
        IF Abs(u) < 500000 /\ Abs(v) < 500000
        THEN RoundDiv(u * Scale, v)
        ELSE Sgn(u) * Sgn(v) * DivSplit(Abs(u), Abs(v)))

\* Newton's iteration for the integer square root, from a start above it
RECURSIVE SqrtNewton(_, _)
SqrtNewton(n, x) ==
    Let((x + n \div x) \div 2, LAMBDA y :
        IF y >= x THEN x ELSE SqrtNewton(n, y))

\* floor of the square root of a natural number
ISqrt(n) ==
    Let(n, LAMBDA m :
        IF m = 0 THEN 0
        ELSE IF m < 10 ^ 4 THEN SqrtNewton(m, 10 ^ 2)
        ELSE IF m < 10 ^ 6 THEN SqrtNewton(m, 10 ^ 3)
        ELSE IF m < 10 ^ 8 THEN SqrtNewton(m, 10 ^ 4)
        ELSE SqrtNewton(m, 46341))

\* square root of a fixed-point number
Sqrt(a) == ISqrt(a * Scale)

(***************************************************************************)
(* numpy: np.radians and np.tan.                                           *)
(***************************************************************************)
Pi == RoundDiv(355 * Scale, 113)

\* np.radians(alpha): degrees to radians, alpha * pi / 180
radians(alpha) == RoundDiv(alpha * Pi, 180)

\* one step of a Taylor series in Horner form: 1 - x2 * t / k
Horner(x2, t, k) == Scale - RoundDiv(Mul(x2, t), k)

\* sine and cosine by their Taylor series in Horner form (|x| below pi/2)
sin(x) ==
    Let2(x, Mul(x, x), LAMBDA v, x2 :
        Mul(v, Horner(x2, Horner(x2, Horner(x2, Horner(x2, Scale, 72), 42), 20), 6)))

cos(x) ==
    Let(Mul(x, x), LAMBDA x2 :
        Horner(x2, Horner(x2, Horner(x2, Horner(x2, Scale, 56), 30), 12), 2))

\* np.tan(x), x in radians
tan(x) == Let(x, LAMBDA v : Div(sin(v), cos(v)))

(***************************************************************************)
(* equations(vars, h, w, d, alpha, g): the four residuals.  The argument   *)
(* vars is called unknowns here; vars names the state variables.           *)
(***************************************************************************)
\* equations() with the height term of equation 3 left out
equations_no_height(unknowns, h, w, d, alpha, g) ==
    LET x1 == unknowns[1]
        y1 == unknowns[2]
        x2 == unknowns[3]
        y2 == unknowns[4]
        alpha_rad == radians(alpha)
        eq1 == x2 - (w - d)
        eq2 == y2 - h
        eq3 == Mul(x2 - x1, x2 - x1) - Mul(g, g)
        eq4 == y1 - h + Mul(d, tan(alpha_rad))
    IN  <<eq1, eq2, eq3, eq4>>

\* equations() with equation 1 written on x1 instead of x2
equations_x1_anchor(unknowns, h, w, d, alpha, g) ==
    LET x1 == unknowns[1]
        y1 == unknowns[2]
        x2 == unknowns[3]
        y2 == unknowns[4]
        alpha_rad == radians(alpha)
        eq1 == x1 - (w - d)
        eq2 == y2 - h
        eq3 == Mul(x2 - x1, x2 - x1) + Mul(y2 - y1, y2 - y1) - Mul(g, g)
        eq4 == y1 - h + Mul(d, tan(alpha_rad))
    IN  <<eq1, eq2, eq3, eq4>>

\* equations() with the gap term of equation 3 added instead of subtracted
equations_gap_sign(unknowns, h, w, d, alpha, g) ==
    LET x1 == unknowns[1]
        y1 == unknowns[2]
        x2 == unknowns[3]
        y2 == unknowns[4]
        alpha_rad == radians(alpha)
        eq1 == x2 - (w - d)
        eq2 == y2 - h
        eq3 == Mul(x2 - x1, x2 - x1) + Mul(y2 - y1, y2 - y1) + Mul(g, g)
        eq4 == y1 - h + Mul(d, tan(alpha_rad))
    IN  <<eq1, eq2, eq3, eq4>>

\* the residuals [eq1, eq2, eq3, eq4] of the four equations at the unknowns
equations(unknowns, h, w, d, alpha, g) ==
    LET x1 == unknowns[1]
        y1 == unknowns[2]
        x2 == unknowns[3]
        y2 == unknowns[4]
        alpha_rad == radians(alpha)
        eq1 == x2 - (w - d)
        eq2 == y2 - h
        eq3 == Mul(x2 - x1, x2 - x1) + Mul(y2 - y1, y2 - y1) - Mul(g, g)
        eq4 == y1 - h + Mul(d, tan(alpha_rad))
    IN  <<eq1, eq2, eq3, eq4>>

(***************************************************************************)
(* scipy.optimize.fsolve(func, x0, args): MINPACK hybrd with the defaults  *)
(* fsolve passes (xtol, maxfev = 200 * (n + 1), factor = 100, mode 1       *)
(* scaling, forward-difference Jacobian), for the n = 4 unknowns of        *)
(* equations().  The Jacobian is re-evaluated by forward differences at    *)
(* every iteration, so every iteration counts as a Jacobian evaluation.    *)
(***************************************************************************)
\* the call func(x, *args) that fsolve makes
func(x, args) ==
    Let(x, LAMBDA v : equations(v, args.h, args.w, args.d, args.alpha, args.g))

\* enorm: Euclidean norm, rescaled by the largest component against overflow
NormBig == 20 * Scale

Square(a) == Let(a, LAMBDA v : v * v)

enorm(v) ==
    Let(v, LAMBDA u :
    Let(Max(Max(Abs(u[1]), Abs(u[2])), Max(Abs(u[3]), Abs(u[4]))) \div NormBig + 1,
        LAMBDA k :
        k * ISqrt(Square(RoundDiv(u[1], k)) + Square(RoundDiv(u[2], k))
                + Square(RoundDiv(u[3], k)) + Square(RoundDiv(u[4], k)))))

\* forward-difference step: the square root of the arithmetic's precision
\* (fdjac1 uses sqrt(epsmch))
FdStep == Sqrt(1) + 1

\* fsolve's default factor: the first step bound is factor * norm(diag * x)
factor == 100

\* relative step tolerance, the smallest the arithmetic can express
xtol == 1

maxfev == 200 * (4 + 1)

\* column j of the forward-difference Jacobian: (f(x + step * e_j) - f(x)) / step
FdColumn(x, fvec, args, j) ==
    Let(func([x EXCEPT ![j] = @ + FdStep], args), LAMBDA fj :
        <<Div(fj[1] - fvec[1], FdStep), Div(fj[2] - fvec[2], FdStep),
          Div(fj[3] - fvec[3], FdStep), Div(fj[4] - fvec[4], FdStep)>>)

\* fdjac1: the Jacobian as its four rows, J[i][j] = d f_i / d x_j
fdjac1(x, fvec, args) ==
    Let(<<FdColumn(x, fvec, args, 1), FdColumn(x, fvec, args, 2),
          FdColumn(x, fvec, args, 3), FdColumn(x, fvec, args, 4)>>, LAMBDA col :
        <<(<<col[1][1], col[2][1], col[3][1], col[4][1]>>),
          (<<col[1][2], col[2][2], col[3][2], col[4][2]>>),
          (<<col[1][3], col[2][3], col[3][3], col[4][3]>>),
          (<<col[1][4], col[2][4], col[3][4], col[4][4]>>)>>)

\* row i of J times p
Dot(J, p, i) ==
    Mul(J[i][1], p[1]) + Mul(J[i][2], p[2]) + Mul(J[i][3], p[3]) + Mul(J[i][4], p[4])

\* J * p
MatVec(J, p) == <<Dot(J, p, 1), Dot(J, p, 2), Dot(J, p, 3), Dot(J, p, 4)>>

\* norm of column j of J
ColNorm(J, j) == enorm(<<J[1][j], J[2][j], J[3][j], J[4][j]>>)

\* componentwise product diag * v
Scaled(diag, v) ==
    <<Mul(diag[1], v[1]), Mul(diag[2], v[2]), Mul(diag[3], v[3]), Mul(diag[4], v[4])>>

\* a zero pivot is replaced by the smallest positive number, as dogleg does
Pivot(a) == Let(a, LAMBDA v : IF v = 0 THEN 1 ELSE v)

\* Gauss-Newton direction: the solution p of J * p = f.  Rows 1, 2 and 4 of
\* the Jacobian of equations() have a single entry (x2, y2 and y1), so the
\* system is solved by substitution into row 3.
GaussNewton(J, f) ==
    Let(Div(f[1], Pivot(J[1][3])), LAMBDA p3 :
    Let(Div(f[2], Pivot(J[2][4])), LAMBDA p4 :
    Let(Div(f[4], Pivot(J[4][2])), LAMBDA p2 :
    Let(f[3] - Mul(J[3][2], p2) - Mul(J[3][3], p3) - Mul(J[3][4], p4), LAMBDA num :
        <<Div(num, Pivot(J[3][1])), p2, p3, p4>>))))

\* component j of the scaled gradient J^T f / diag
Grad(J, f, diag, j) ==
    Div(Mul(J[1][j], f[1]) + Mul(J[2][j], f[2])
      + Mul(J[3][j], f[3]) + Mul(J[4][j], f[4]), diag[j])

\* the weight of the Gauss-Newton direction x in the dogleg step, when the
\* scaled gradient step of length sgnorm ends inside the trust region
DoglegAlpha(f, delta, qnorm, gnorm, sgnorm) ==
    Let(enorm(f), LAMBDA bnorm :
    Let2(Div(delta, qnorm), Div(sgnorm, delta), LAMBDA dq, sd :
    Let(Mul(Mul(Div(bnorm, gnorm), Div(bnorm, qnorm)), sd), LAMBDA t0 :
    Let(t0 - Mul(dq, Mul(sd, sd))
        + Sqrt(Mul(t0 - dq, t0 - dq)
               + Mul(Scale - Mul(dq, dq), Scale - Mul(sd, sd))), LAMBDA t1 :
        Div(Mul(dq, Scale - Mul(sd, sd)), Pivot(t1))))))

\* the dogleg step when the Gauss-Newton direction x leaves the trust region
\* and the gradient g0 is not zero
DoglegMixed(J, f, diag, delta, x, qnorm, g0, gnorm) ==
    Let(<<Div(Div(g0[1], gnorm), diag[1]), Div(Div(g0[2], gnorm), diag[2]),
          Div(Div(g0[3], gnorm), diag[3]), Div(Div(g0[4], gnorm), diag[4])>>,
        LAMBDA gr :
    Let(Pivot(enorm(MatVec(J, gr))), LAMBDA temp :
    Let(Div(Div(gnorm, temp), temp), LAMBDA sgnorm :
    Let(IF sgnorm < delta THEN DoglegAlpha(f, delta, qnorm, gnorm, sgnorm) ELSE 0,
        LAMBDA alpha :
    Let(Mul(Scale - alpha, Min(sgnorm, delta)), LAMBDA t :
        <<Mul(t, gr[1]) + Mul(alpha, x[1]), Mul(t, gr[2]) + Mul(alpha, x[2]),
          Mul(t, gr[3]) + Mul(alpha, x[3]), Mul(t, gr[4]) + Mul(alpha, x[4])>>)))))

\* the dogleg step when the Gauss-Newton direction x, of scaled length qnorm,
\* leaves the trust region
DoglegBoundary(J, f, diag, delta, x, qnorm) ==
    Let(<<Grad(J, f, diag, 1), Grad(J, f, diag, 2),
          Grad(J, f, diag, 3), Grad(J, f, diag, 4)>>, LAMBDA g0 :
    Let(enorm(g0), LAMBDA gnorm :
        IF gnorm = 0
        THEN Let(Div(delta, qnorm), LAMBDA dq :
                 <<Mul(dq, x[1]), Mul(dq, x[2]), Mul(dq, x[3]), Mul(dq, x[4])>>)
        ELSE DoglegMixed(J, f, diag, delta, x, qnorm, g0, gnorm)))

\* dogleg: the Gauss-Newton direction when it lies in the trust region of
\* radius delta, otherwise the combination of it with the scaled gradient
\* direction that minimises the linearised residual on the region's boundary.
dogleg(J, f, diag, delta) ==
    Let(GaussNewton(J, f), LAMBDA x :
    Let(enorm(Scaled(diag, x)), LAMBDA qnorm :
        IF qnorm <= delta THEN x
        ELSE DoglegBoundary(J, f, diag, delta, x, qnorm)))

\* mode 1 scaling: the column norms of the first Jacobian, 1.0 for a zero column
Scale0(J, j) == Let(ColNorm(J, j), LAMBDA c : IF c = 0 THEN Scale ELSE c)

\* the scaling and the step bound hybrd sets up at the starting point
HybrdStart(x0, args) ==
    Let(func(x0, args), LAMBDA fvec :
    Let(fdjac1(x0, fvec, args), LAMBDA J :
    Let(<<Scale0(J, 1), Scale0(J, 2), Scale0(J, 3), Scale0(J, 4)>>, LAMBDA diag :
    Let(enorm(Scaled(diag, x0)), LAMBDA xnorm :
        [x |-> x0, fvec |-> fvec, fnorm |-> enorm(fvec), diag |-> diag,
         xnorm |-> xnorm,
         delta |-> IF xnorm = 0 THEN factor * Scale ELSE factor * xnorm,
         iter |-> 1, ncsuc |-> 0, ncfail |-> 0, nslow1 |-> 0, nslow2 |-> 0,
         nfev |-> 1, info |-> 0]))))

\* 1 - (a / b)^2
Reduction(a, b) == Let(Div(a, b), LAMBDA r : Scale - Mul(r, r))

\* the end of an iteration of hybrd: with the trial point xn, its residuals
\* fn of norm fnorm1, the scaled step length pnorm and the reductions, the
\* acceptance test, the update of the step bound, and the termination tests
HybrdUpdate(st, diag, xn, fn, fnorm1, pnorm, actred, ratio) ==
    LET delta0 == IF st.iter = 1 THEN Min(st.delta, pnorm) ELSE st.delta
        fail == ratio < Scale \div 10
        ncsuc == IF fail THEN 0 ELSE st.ncsuc + 1
        ncfail == IF fail THEN st.ncfail + 1 ELSE 0
        delta1 == IF ratio >= Scale \div 2 \/ ncsuc > 1
                  THEN Max(delta0, 2 * pnorm) ELSE delta0
        delta == IF fail THEN RoundDiv(delta0, 2)
                 ELSE IF Abs(ratio - Scale) <= Scale \div 10 THEN 2 * pnorm
                 ELSE delta1
        accept == ratio >= 1
        x == IF accept THEN xn ELSE st.x
        fvec == IF accept THEN fn ELSE st.fvec
        fnorm == IF accept THEN fnorm1 ELSE st.fnorm
        nslow1 == IF actred >= 1 THEN 0 ELSE st.nslow1 + 1
        nslow2 == IF actred >= Scale \div 10 THEN 0 ELSE st.nslow2 + 1
        nfev == st.nfev + 4 + 1
    IN  Let2(delta, IF accept THEN enorm(Scaled(diag, xn)) ELSE st.xnorm,
             LAMBDA dl, xnorm :
            [x |-> x, fvec |-> fvec, fnorm |-> fnorm, diag |-> diag,
             xnorm |-> xnorm, delta |-> dl,
             iter |-> IF accept THEN st.iter + 1 ELSE st.iter,
             ncsuc |-> ncsuc, ncfail |-> ncfail, nslow1 |-> nslow1,
             nslow2 |-> nslow2, nfev |-> nfev,
             info |-> IF dl <= Mul(xtol, xnorm) \/ fnorm = 0 THEN 1
                      ELSE IF nfev >= maxfev THEN 2
                      ELSE IF nslow2 = 5 THEN 4
                      ELSE IF nslow1 = 10 THEN 5
                      ELSE 0])

\* the middle of an iteration of hybrd: the trial point x + p, the actual and
\* the predicted reduction of the residual norm, and their ratio
HybrdTrial(st, args, J, diag, p) ==
    Let(<<st.x[1] + p[1], st.x[2] + p[2], st.x[3] + p[3], st.x[4] + p[4]>>,
        LAMBDA xn :
    Let2(func(xn, args), MatVec(J, p), LAMBDA fn, Jp :
    Let2(enorm(fn), enorm(<<st.fvec[1] + Jp[1], st.fvec[2] + Jp[2],
                            st.fvec[3] + Jp[3], st.fvec[4] + Jp[4]>>),
         LAMBDA fnorm1, lin :
    Let2(IF fnorm1 < st.fnorm THEN Reduction(fnorm1, st.fnorm) ELSE -Scale,
         IF lin < st.fnorm THEN Reduction(lin, st.fnorm) ELSE 0,
         LAMBDA actred, prered :
    Let2(enorm(Scaled(diag, p)), IF prered > 0 THEN Div(actred, prered) ELSE 0,
         LAMBDA pnorm, ratio :
        HybrdUpdate(st, diag, xn, fn, fnorm1, pnorm, actred, ratio))))))

\* one iteration of hybrd: Jacobian, scaling, dogleg step, then the trial
HybrdIter(st, args) ==
    Let(fdjac1(st.x, st.fvec, args), LAMBDA J :
    Let(<<Max(st.diag[1], ColNorm(J, 1)), Max(st.diag[2], ColNorm(J, 2)),
          Max(st.diag[3], ColNorm(J, 3)), Max(st.diag[4], ColNorm(J, 4))>>,
        LAMBDA diag :
    Let(dogleg(J, st.fvec, diag, st.delta), LAMBDA dl :
        HybrdTrial(st, args, J, diag, <<-dl[1], -dl[2], -dl[3], -dl[4]>>))))

RECURSIVE HybrdLoop(_, _)
HybrdLoop(st, args) ==
    IF st.info # 0 THEN st
    ELSE Let(HybrdIter(st, args), LAMBDA next : HybrdLoop(next, args))

\* hybrd: iterate from x0 until a termination test fires.  info = 1 is
\* convergence; 2, 4 and 5 are the failures (too many evaluations, no
\* progress), which end the iteration all the same.
hybrd(x0, args) ==
    Let(HybrdStart(x0, args), LAMBDA st :
        IF st.fnorm = 0 THEN [st EXCEPT !.info = 1] ELSE HybrdLoop(st, args))

\* fsolve without full_output returns the final iterate only; info is dropped
\* (a failure becomes a warning, not an exception or a return value).
fsolve(x0, args) == hybrd(x0, args).x

(***************************************************************************)
(* solve_pivot_points(h, w, d, alpha, g)                                   *)
(***************************************************************************)
\* the seed with y1 taken from the result of the previous call, when there
\* is one (a guess kept at module level and updated by every call)
initial_guess_kept(h, w, d) ==
    <<RoundDiv(w, 2), IF pivot_box = None THEN RoundDiv(h, 2) ELSE pivot_box[2],
      w - d, h>>

\* the seed with the lid pivot at x2 = w, the depth d left out
initial_guess_no_depth(h, w, d) == <<RoundDiv(w, 2), RoundDiv(h, 2), w, h>>

\* initial_guess = [w / 2, h / 2, w - d, h]
initial_guess(h, w, d) == <<RoundDiv(w, 2), RoundDiv(h, 2), w - d, h>>

\* solve_pivot_points() returning None for both points when the final iterate
\* is not a root
solve_pivot_points_checked(h, w, d, alpha, g) ==
    Let(initial_guess(h, w, d), LAMBDA guess :
    Let(fsolve(guess, [h |-> h, w |-> w, d |-> d, alpha |-> alpha, g |-> g]),
        LAMBDA solution :
        LET x1 == solution[1]
            y1 == solution[2]
            x2 == solution[3]
            y2 == solution[4]
        IN  [initial_guess |-> guess, solution |-> solution,
             ret |-> IF enorm(equations(solution, h, w, d, alpha, g)) <= Scale \div 50
                     THEN <<(<<x1, y1>>), (<<x2, y2>>)>>
                     ELSE <<None, None>>]))

\* The call's locals and its return value ((x1, y1), (x2, y2)).  There is no
\* validation of the arguments and no test of fsolve's outcome.
solve_pivot_points(h, w, d, alpha, g) ==
    Let(initial_guess(h, w, d), LAMBDA guess :
    Let(fsolve(guess, [h |-> h, w |-> w, d |-> d, alpha |-> alpha, g |-> g]),
        LAMBDA solution :
        LET x1 == solution[1]
            y1 == solution[2]
            x2 == solution[3]
            y2 == solution[4]
        IN  [initial_guess |-> guess, solution |-> solution,
             ret |-> <<(<<x1, y1>>), (<<x2, y2>>)>>]))

(***************************************************************************)
(* The caller: the module-level parameters h, w, d, alpha, g, the call     *)
(* pivot_box, pivot_lid = solve_pivot_points(h, w, d, alpha, g), and       *)
(* direct evaluations of equations().                                      *)
(***************************************************************************)
\* boxes (h, w, d): the script's 10, 15, 5; two more valid boxes; one with
\* d > w
Boxes == {<<10, 15, 5>>, <<8, 12, 4>>, <<6, 8, 2>>, <<6, 4, 6>>}

Angles == {-45, -30, 0, 30, 45}

Gaps == {0, 2, 3, 5, 6}

\* boxes with d = w / 2, where the seed has x1 = x2 and the derivative of
\* equation 3 in x1 vanishes; the (alpha, g) are those whose trial iterates
\* stay in the range of the arithmetic
SingularSeeds == {<<8, 12, 6, 0, 0>>, <<8, 12, 6, 0, 3>>, <<4, 6, 3, 0, 2>>}

Inputs ==
    {<<b[1], b[2], b[3], a, gap>> : b \in Boxes, a \in Angles, gap \in Gaps}
    \cup SingularSeeds

Params(t) ==
    [h |-> t[1] * Scale, w |-> t[2] * Scale, d |-> t[3] * Scale,
     alpha |-> t[4], g |-> t[5] * Scale]

\* the values of the example usage: h = 10, w = 15, d = 5, alpha = 30, g = 2
Reference == Params(<<10, 15, 5, 30, 2>>)

\* number of calls of solve_pivot_points in one run
MaxCalls == 3

\* d * np.tan(alpha_rad), the offset of equation 4
TanTerm(q) == Mul(q.d, tan(radians(q.alpha)))

\* g^2 >= (d * tan(alpha))^2
HasRoot(q) == Mul(q.g, q.g) >= Mul(TanTerm(q), TanTerm(q))

\* the x1 that zeroes equation 3 when equations 1, 2 and 4 hold (the smaller
\* of the two), or w - d when there is none
RootX1(q) ==
    IF HasRoot(q)
    THEN q.w - q.d - Sqrt(Mul(q.g, q.g) - Mul(TanTerm(q), TanTerm(q)))
    ELSE q.w - q.d

\* vectors at which equations() is evaluated directly
Candidates(q) ==
    {<<x1, y1, x2, y2>> :
        x1 \in {0, RoundDiv(q.w, 2), RootX1(q), q.w - q.d, q.w - q.d + Scale},
        y1 \in {RoundDiv(q.h, 2), q.h - TanTerm(q)},
        x2 \in {q.w - q.d, q.w - q.d + Scale},
        y2 \in {q.h, RoundDiv(q.h, 2)}}

Init ==
    /\ params \in {Params(t) : t \in Inputs}
    /\ pc = "ready"
    /\ frame = None
    /\ pivot_box = None
    /\ pivot_lid = None
    /\ evald = None
    /\ history = {}
    /\ ncalls = 0

\* pivot_box, pivot_lid = solve_pivot_points(h, w, d, alpha, g)
Solve ==
    /\ pc = "ready"
    /\ \E r \in {solve_pivot_points(params.h, params.w, params.d,
                                     params.alpha, params.g)} :
           /\ frame' = r
           /\ pivot_box' = r.ret[1]
           /\ pivot_lid' = r.ret[2]
           /\ history' = history \cup
                           {[args |-> params, box |-> r.ret[1], lid |-> r.ret[2]]}
    /\ ncalls' = ncalls + 1
    /\ pc' = "returned"
    /\ UNCHANGED <<params, evald>>

\* the caller sets the parameters for another call: the same values, or the
\* angle negated
Reassign ==
    /\ pc = "returned"
    /\ ncalls < MaxCalls
    /\ \E q \in {params, [params EXCEPT !.alpha = -@]} :
          params' = q
    /\ pc' = "ready"
    /\ UNCHANGED <<frame, pivot_box, pivot_lid, evald, history, ncalls>>

\* a direct call equations(v, h, w, d, alpha, g)
Evaluate ==
    /\ pc = "ready"
    /\ ncalls = 0
    /\ \E v \in Candidates(params) :
          evald' = [vars |-> v,
                    res |-> equations(v, params.h, params.w, params.d,
                                      params.alpha, params.g)]
    /\ pc' = "evaluated"
    /\ UNCHANGED <<params, frame, pivot_box, pivot_lid, history, ncalls>>

Next == Solve \/ Reassign \/ Evaluate

Spec == Init /\ [][Next]_vars

\* direct evaluations of equations() alone, without calls of the solver
NextEval == Evaluate

SpecEval == Init /\ [][NextEval]_vars

TypeOK ==
    /\ pc \in {"ready", "returned", "evaluated"}
    /\ ncalls \in 0 .. MaxCalls
    /\ Cardinality(history) <= ncalls

(***************************************************************************)
(* Vocabulary of the properties.                                           *)
(***************************************************************************)
\* tolerance of the comparisons: 0.02, above the rounding of the arithmetic
Tol == Scale \div 50

Near(a, b) == Abs(a - b) <= Tol

\* h > 0, w > 0, 0 < d <= w, alpha in (-90, 90), g >= 0
Valid(q) ==
    /\ q.h > 0 /\ q.w > 0 /\ q.d > 0 /\ q.d <= q.w
    /\ q.alpha > -90 /\ q.alpha < 90
    /\ q.g >= 0

\* Euclidean distance between two points
Dist(a, b) == enorm(<<b[1] - a[1], b[2] - a[2], 0, 0>>)

Residuals(v, q) == equations(v, q.h, q.w, q.d, q.alpha, q.g)

IsPoint(p) == p # None /\ Len(p) = 2 /\ p[1] \in Int /\ p[2] \in Int

Returned == pc = "returned"

Evaluated == pc = "evaluated"

\* C1: for every valid parameter set the returned lid pivot is (w - d, h),
\* whether or not the returned iterate satisfies the gap and angle equations.
Claim_C1_LidAnchored ==
    (Returned /\ Valid(params)) =>
        (Near(pivot_lid[1], params.w - params.d) /\ Near(pivot_lid[2], params.h))

\* C2: whenever the system has a root, the distance between the returned box
\* pivot and lid pivot equals g within tolerance.
Claim_C2_GapDistance ==
    (Returned /\ HasRoot(params)) =>
        Near(Dist(pivot_box, pivot_lid), params.g)

\* C3: the returned y1 equals h - d * tan(alpha) within tolerance, and equals
\* h when alpha = 0.
Claim_C3_AngleHeight ==
    Returned =>
        /\ Near(pivot_box[2], params.h - TanTerm(params))
        /\ params.alpha = 0 => Near(pivot_box[2], params.h)

Claim_C5_AngleSymmetry ==
    \A a \in history : \A b \in history :
        (b.args = [a.args EXCEPT !.alpha = -@]) =>
            Near(a.box[2] + b.box[2], 2 * a.args.h)

\* C6: every call, also one with invalid arguments or with a system that has
\* no root, returns a pair of points made of the final iterate of fsolve; no
\* error value or error state exists.
Thm_C6_AlwaysPoints ==
    Returned =>
        /\ IsPoint(pivot_box) /\ IsPoint(pivot_lid)
        /\ pivot_box = <<frame.solution[1], frame.solution[2]>>
        /\ pivot_lid = <<frame.solution[3], frame.solution[4]>>

Wit_C6_InvalidNoRoot ==
    /\ Returned /\ ~Valid(params) /\ ~HasRoot(params)
    /\ IsPoint(pivot_box) /\ IsPoint(pivot_lid)
    /\ ~Near(Residuals(frame.solution, params)[3], 0)

X1Others(q) == {0, RoundDiv(q.w, 2), RootX1(q), q.w - q.d + Scale}

\* C8 as stated: no equation references x1; unknown vectors that differ only
\* in x1 have the same four residuals.
Claim_C8_X1Unreferenced ==
    Evaluated =>
        \A x \in X1Others(params) :
            Residuals([evald.vars EXCEPT ![1] = x], params) = evald.res

\* C8 as amended: equations 1, 2 and 4 do not reference x1, so unknown vectors
\* that differ only in x1 have the same residuals 1, 2 and 4; equation 3 does
\* reference x1, and its residual changes with x1.
Thm_C8_X1OnlyInGap ==
    Evaluated =>
        /\ \A x \in X1Others(params) :
              LET r == Residuals([evald.vars EXCEPT ![1] = x], params)
              IN  r[1] = evald.res[1] /\ r[2] = evald.res[2] /\ r[4] = evald.res[4]
        /\ \E x \in X1Others(params) :
              Residuals([evald.vars EXCEPT ![1] = x], params)[3] # evald.res[3]

Wit_C8_GapMoves ==
    /\ Evaluated /\ evald.vars[1] = RoundDiv(params.w, 2)
    /\ evald.res[1] # 0 /\ evald.res[4] # 0
    /\ Residuals([evald.vars EXCEPT ![1] = 0], params)[3] # evald.res[3]

\* C9: the call seeds fsolve at (w / 2, h / 2, w - d, h), and the residuals of
\* equations 1 and 2 at the seed are exactly zero.
Thm_C9_Seed ==
    Returned =>
        /\ frame.initial_guess[1] * 2 = params.w
        /\ frame.initial_guess[2] * 2 = params.h
        /\ frame.initial_guess[3] = params.w - params.d
        /\ frame.initial_guess[4] = params.h
        /\ Residuals(frame.initial_guess, params)[1] = 0
        /\ Residuals(frame.initial_guess, params)[2] = 0

Wit_C9_SeedLeft ==
    /\ Returned /\ params.alpha # 0
    /\ frame.initial_guess = <<RoundDiv(params.w, 2), RoundDiv(params.h, 2),
                               params.w - params.d, params.h>>
    /\ Residuals(frame.initial_guess, params)[3] # 0
    /\ Residuals(frame.initial_guess, params)[4] # 0
    /\ frame.solution # frame.initial_guess

\* the root with the smaller x1, when there is one
RootVec(q) == <<RootX1(q), q.h - TanTerm(q), q.w - q.d, q.h>>

AllNear0(r) == Near(r[1], 0) /\ Near(r[2], 0) /\ Near(r[3], 0) /\ Near(r[4], 0)

\* C10: the system has a root iff g^2 >= (d * tan(alpha))^2.  Where equations
\* 1, 2 and 4 hold, residual 3 is (w - d - x1)^2 - (g^2 - (d * tan(alpha))^2);
\* so it is positive for every x1 when |d * tan(alpha)| > g, and when
\* g >= |d * tan(alpha)| the vector with x1 = w - d - sqrt(g^2 - (d*tan(alpha))^2)
\* zeroes all four residuals.
Thm_C10_RootCondition ==
    Evaluated =>
        LET r == evald.res
            v == evald.vars
            dx == params.w - params.d - v[1]
            t == TanTerm(params)
        IN  /\ (r[1] = 0 /\ r[2] = 0 /\ r[4] = 0) =>
                  r[3] = Mul(dx, dx) - (Mul(params.g, params.g) - Mul(t, t))
            /\ (r[1] = 0 /\ r[2] = 0 /\ r[4] = 0 /\ ~HasRoot(params)) => r[3] > Tol
            /\ AllNear0(r) => HasRoot(params)
            /\ (HasRoot(params) /\ v = RootVec(params)) => AllNear0(r)

Wit_C10_RootEvaluated ==
    /\ Evaluated /\ HasRoot(params) /\ params.alpha # 0 /\ params.g > 0
    /\ evald.vars = RootVec(params)
    /\ evald.vars[1] # params.w - params.d
    /\ AllNear0(evald.res)

====
